---- MODULE Spec2Model ----
(***************************************************************************)
(* A model of gozip's ziplib package (ziplib/ziplib.go, ziplib/match.go):  *)
(* Zip, Unzip and matchesAny over a small Unix file system.                *)
(*                                                                         *)
(* Strings are sequences of one-character strings, so that prefix tests,   *)
(* path cleaning and glob matching are computed character by character.    *)
(* The host is Unix: os.PathSeparator is "/".  The file system has no      *)
(* symbolic links, and the process is not the superuser.                   *)
(***************************************************************************)
EXTENDS Integers, Sequences, FiniteSets, TLC

\* ------------------------------------------------------------------ bounds
MaxPatLen == 3
MaxNameLen == 2
MaxPats == 2
MaxFiles == 2
MaxEntries == 2
MaxCalls == 2

\* ----------------------------------------------------------------- strings
Sep == "/"
Dot == <<".">>
DotDot == <<".", ".">>

\* strings.HasPrefix(s, prefix)
HasPrefix(s, prefix) ==
    /\ Len(prefix) <= Len(s)
    /\ SubSeq(s, 1, Len(prefix)) = prefix

\* strings.Contains(s, c) for a one-character c
Contains(s, c) == \E i \in 1..Len(s) : s[i] = c

\* All strings over alphabet A of length at most n.
RECURSIVE StringsUpTo(_, _)
StringsUpTo(A, n) ==
    IF n = 0 THEN {<<>>}
    ELSE LET S == StringsUpTo(A, n - 1)
         IN  S \cup {Append(s, c) : s \in {t \in S : Len(t) = n - 1}, c \in A}

\* The byte value of the characters the model uses (ASCII).
CharOrd(c) ==
    CASE c = "*" -> 42 [] c = "-" -> 45 [] c = "." -> 46 [] c = "/" -> 47
      [] c = "?" -> 63 [] c = "[" -> 91 [] c = "\\" -> 92 [] c = "]" -> 93
      [] c = "^" -> 94 [] c = "a" -> 97 [] c = "b" -> 98 [] c = "d" -> 100
      [] c = "n" -> 110 [] c = "o" -> 111 [] c = "p" -> 112 [] c = "r" -> 114
      [] c = "w" -> 119 [] c = "x" -> 120 [] c = "z" -> 122

\* ------------------------------------------------------------------- paths
\* The elements of s between separators (strings.Split(s, "/")).
RECURSIVE SplitSeg(_, _, _)
SplitSeg(s, cur, acc) ==
    IF s = <<>> THEN Append(acc, cur)
    ELSE IF Head(s) = Sep THEN SplitSeg(Tail(s), <<>>, Append(acc, cur))
    ELSE SplitSeg(Tail(s), Append(cur, Head(s)), acc)

Split(s) == SplitSeg(s, <<>>, <<>>)

\* strings.Join(segs, "/")
RECURSIVE JoinSegs(_)
JoinSegs(segs) ==
    IF segs = <<>> THEN <<>>
    ELSE IF Len(segs) = 1 THEN segs[1]
    ELSE segs[1] \o <<Sep>> \o JoinSegs(Tail(segs))

\* The element loop of filepath.Clean: empty and "." elements are dropped,
\* ".." removes the element before it, or is kept when the path is relative
\* and nothing is left to remove, or dropped at the root.
RECURSIVE CleanSegs(_, _, _)
CleanSegs(segs, rooted, out) ==
    IF segs = <<>> THEN out
    ELSE LET e == Head(segs)
             rest == Tail(segs)
         IN  IF e = <<>> \/ e = Dot THEN CleanSegs(rest, rooted, out)
             ELSE IF e = DotDot
             THEN IF Len(out) > 0 /\ out[Len(out)] # DotDot
                  THEN CleanSegs(rest, rooted, SubSeq(out, 1, Len(out) - 1))
                  ELSE IF rooted THEN CleanSegs(rest, rooted, out)
                  ELSE CleanSegs(rest, rooted, Append(out, DotDot))
             ELSE CleanSegs(rest, rooted, Append(out, e))

\* filepath.Clean
Clean(p) ==
    IF p = <<>> THEN Dot
    ELSE LET rooted == Head(p) = Sep
             body == JoinSegs(CleanSegs(Split(p), rooted, <<>>))
         IN  IF rooted THEN <<Sep>> \o body
             ELSE IF body = <<>> THEN Dot ELSE body

\* filepath.Join(a, b): the non-empty elements joined by "/" and cleaned.
Join(a, b) ==
    IF a # <<>> THEN Clean(a \o <<Sep>> \o b)
    ELSE IF b # <<>> THEN Clean(b)
    ELSE <<>>

\* s without its trailing separators.
RECURSIVE StripTrailingSep(_)
StripTrailingSep(s) ==
    IF s # <<>> /\ s[Len(s)] = Sep THEN StripTrailingSep(SubSeq(s, 1, Len(s) - 1))
    ELSE s

\* The index of the last separator of s, 0 when it has none.
RECURSIVE LastSep(_, _)
LastSep(s, i) ==
    IF i = 0 THEN 0 ELSE IF s[i] = Sep THEN i ELSE LastSep(s, i - 1)

\* filepath.Base
Base(p) ==
    IF p = <<>> THEN Dot
    ELSE LET s == StripTrailingSep(p)
             t == SubSeq(s, LastSep(s, Len(s)) + 1, Len(s))
         IN  IF t = <<>> THEN <<Sep>> ELSE t

\* filepath.Dir
Dir(p) == Clean(SubSeq(p, 1, LastSep(p, Len(p))))

\* filepath.ToSlash: every os.PathSeparator becomes "/".
ToSlash(p) == [i \in 1..Len(p) |-> IF p[i] = Sep THEN "/" ELSE p[i]]

\* ------------------------------------------------------- filepath.Match
\* scanChunk: the leading stars of the pattern, the chunk up to the next star
\* outside a character class, and the rest.
RECURSIVE ScanEnd(_, _, _)
ScanEnd(p, i, inrange) ==
    IF i > Len(p) THEN Len(p)
    ELSE LET c == p[i]
         IN  IF c = "\\" THEN ScanEnd(p, IF i < Len(p) THEN i + 2 ELSE i + 1, inrange)
             ELSE IF c = "[" THEN ScanEnd(p, i + 1, TRUE)
             ELSE IF c = "]" THEN ScanEnd(p, i + 1, FALSE)
             ELSE IF c = "*" /\ ~inrange THEN i - 1
             ELSE ScanEnd(p, i + 1, inrange)

RECURSIVE StripStars(_)
StripStars(p) == IF p # <<>> /\ Head(p) = "*" THEN StripStars(Tail(p)) ELSE p

scanChunk(pattern) ==
    LET p == StripStars(pattern)
        k == ScanEnd(p, 1, FALSE)
    IN  [star |-> Len(p) < Len(pattern),
         chunk |-> SubSeq(p, 1, k),
         rest |-> SubSeq(p, k + 1, Len(p))]

\* getEsc: one possibly escaped character of a character class.
getEsc(chunk) ==
    IF chunk = <<>> \/ Head(chunk) = "-" \/ Head(chunk) = "]"
    THEN [err |-> TRUE, r |-> 0, chunk |-> <<>>]
    ELSE LET c1 == IF Head(chunk) = "\\" THEN Tail(chunk) ELSE chunk
         IN  IF c1 = <<>> THEN [err |-> TRUE, r |-> 0, chunk |-> <<>>]
             ELSE [err |-> Len(c1) = 1, r |-> CharOrd(Head(c1)), chunk |-> Tail(c1)]

\* The range loop of matchChunk: r is the byte of the name tested (0 once the
\* match has failed).
RECURSIVE ClassLoop(_, _, _, _)
ClassLoop(chunk, r, match, nrange) ==
    IF chunk # <<>> /\ Head(chunk) = "]" /\ nrange > 0
    THEN [err |-> FALSE, match |-> match, chunk |-> Tail(chunk)]
    ELSE LET lo == getEsc(chunk)
         IN  IF lo.err THEN [err |-> TRUE, match |-> FALSE, chunk |-> <<>>]
             ELSE IF Head(lo.chunk) = "-"
             THEN LET hi == getEsc(Tail(lo.chunk))
                  IN  IF hi.err THEN [err |-> TRUE, match |-> FALSE, chunk |-> <<>>]
                      ELSE ClassLoop(hi.chunk, r, match \/ (lo.r <= r /\ r <= hi.r),
                                     nrange + 1)
             ELSE ClassLoop(lo.chunk, r, match \/ lo.r = r, nrange + 1)

\* matchChunk: the chunk against the front of s.  After the match has failed
\* the chunk is still read to its end, to find a malformed pattern.
RECURSIVE matchChunkFrom(_, _, _)
matchChunkFrom(chunk, s, wasFailed) ==
    IF chunk = <<>>
    THEN [ok |-> ~wasFailed, err |-> FALSE, rest |-> IF wasFailed THEN <<>> ELSE s]
    ELSE LET failed == wasFailed \/ s = <<>>
             c == Head(chunk)
         IN  IF c = "["
             THEN LET r == IF failed THEN 0 ELSE CharOrd(Head(s))
                      s1 == IF failed THEN s ELSE Tail(s)
                      c1 == Tail(chunk)
                      negated == c1 # <<>> /\ Head(c1) = "^"
                      c2 == IF negated THEN Tail(c1) ELSE c1
                      cl == ClassLoop(c2, r, FALSE, 0)
                  IN  IF cl.err THEN [ok |-> FALSE, err |-> TRUE, rest |-> <<>>]
                      ELSE matchChunkFrom(cl.chunk, s1, failed \/ cl.match = negated)
             ELSE IF c = "?"
             THEN matchChunkFrom(Tail(chunk), IF failed THEN s ELSE Tail(s),
                                 failed \/ Head(s) = Sep)
             ELSE LET c1 == IF c = "\\" THEN Tail(chunk) ELSE chunk
                  IN  IF c1 = <<>> THEN [ok |-> FALSE, err |-> TRUE, rest |-> <<>>]
                      ELSE matchChunkFrom(Tail(c1), IF failed THEN s ELSE Tail(s),
                                          failed \/ Head(c1) # Head(s))

matchChunk(chunk, s) == matchChunkFrom(chunk, s, FALSE)

\* filepath.Match(pattern, name): [matched, err], err for ErrBadPattern.
RECURSIVE Match(_, _)
RECURSIVE StarLoop(_, _, _, _)
StarLoop(chunk, rest, name, i) ==
    IF ~(i < Len(name) /\ name[i + 1] # Sep) THEN [matched |-> FALSE, err |-> FALSE]
    ELSE LET r == matchChunk(chunk, SubSeq(name, i + 2, Len(name)))
         IN  IF r.ok
             THEN IF rest = <<>> /\ r.rest # <<>> THEN StarLoop(chunk, rest, name, i + 1)
                  ELSE Match(rest, r.rest)
             ELSE IF r.err THEN [matched |-> FALSE, err |-> TRUE]
             ELSE StarLoop(chunk, rest, name, i + 1)

Match(pattern, name) ==
    IF pattern = <<>> THEN [matched |-> name = <<>>, err |-> FALSE]
    ELSE LET sc == scanChunk(pattern)
         IN  IF sc.star /\ sc.chunk = <<>>
             THEN [matched |-> ~Contains(name, Sep), err |-> FALSE]
             ELSE LET r == matchChunk(sc.chunk, name)
                  IN  IF r.ok /\ (r.rest = <<>> \/ sc.rest # <<>>)
                      THEN Match(sc.rest, r.rest)
                      ELSE IF r.err THEN [matched |-> FALSE, err |-> TRUE]
                      ELSE IF sc.star THEN StarLoop(sc.chunk, sc.rest, name, 0)
                      ELSE [matched |-> FALSE, err |-> FALSE]

\* ------------------------------------------------------------ matchesAny
\* matchesAny that tests the whole name, not its base name.
RECURSIVE matchesFromFullName(_, _, _)
matchesFromFullName(name, patterns, i) ==
    IF i > Len(patterns) THEN FALSE
    ELSE LET m == Match(patterns[i], name)
         IN  IF ~m.err /\ m.matched THEN TRUE
             ELSE matchesFromFullName(name, patterns, i + 1)

\* The loop of matchesAny from pattern i on: a pattern matches when Match
\* returns no error and true; otherwise the next pattern is tried.
RECURSIVE matchesFrom(_, _, _)
matchesFrom(name, patterns, i) ==
    IF i > Len(patterns) THEN FALSE
    ELSE LET m == Match(patterns[i], Base(name))
         IN  IF ~m.err /\ m.matched THEN TRUE
             ELSE matchesFrom(name, patterns, i + 1)

matchesAny(name, patterns) == matchesFrom(name, patterns, 1)

\* ------------------------------------------------------------ file system
\* The working directory of the process.
Cwd == <<"/", "w">>

\* filepath.Abs
Abs(p) == IF p # <<>> /\ Head(p) = Sep THEN Clean(p) ELSE Join(Cwd, p)

\* A file-system node.  w: the owner may write (a file created with a mode
\* such as 0444, or a directory created with 0555, has w = FALSE).  mt: the
\* modification time.
DirNode(w) == [dir |-> TRUE, data |-> 0, w |-> w, mt |-> 0]
FileNode(data, w, mt) == [dir |-> FALSE, data |-> data, w |-> w, mt |-> mt]

ChildPath(cur, e) == IF cur = <<Sep>> THEN <<Sep>> \o e ELSE cur \o <<Sep>> \o e

\* The kernel's resolution of a path, element by element from the root or
\* the working directory: [ok, p], p the absolute path reached.
RECURSIVE ResolveFrom(_, _, _)
ResolveFrom(f, cur, segs) ==
    IF segs = <<>> THEN [ok |-> TRUE, p |-> cur]
    ELSE IF ~f[cur].dir THEN [ok |-> FALSE, p |-> cur]
    ELSE LET e == Head(segs)
         IN  IF e = <<>> \/ e = Dot THEN ResolveFrom(f, cur, Tail(segs))
             ELSE IF e = DotDot THEN ResolveFrom(f, Dir(cur), Tail(segs))
             ELSE IF ChildPath(cur, e) \in DOMAIN f
             THEN ResolveFrom(f, ChildPath(cur, e), Tail(segs))
             ELSE [ok |-> FALSE, p |-> cur]

\* os.Stat(path): ok when the path names an existing node.
Stat(f, path) ==
    IF path = <<>> THEN [ok |-> FALSE, p |-> Cwd]
    ELSE ResolveFrom(f, IF Head(path) = Sep THEN <<Sep>> ELSE Cwd, Split(path))

\* os.MkdirAll(path, perm) for a cleaned path: nothing to do when the path
\* is a directory, an error when it is a file; otherwise the parent is made
\* first and then the directory itself, which fails in a parent the owner
\* may not write.  Directories made before a failure stay.
RECURSIVE MkdirAllAbs(_, _, _)
MkdirAllAbs(f, p, w) ==
    IF p \in DOMAIN f
    THEN [ok |-> f[p].dir, fs |-> f, made |-> {}]
    ELSE LET r == MkdirAllAbs(f, Dir(p), w)
         IN  IF ~r.ok THEN r
             ELSE IF ~r.fs[Dir(p)].w THEN [ok |-> FALSE, fs |-> r.fs, made |-> r.made]
             ELSE [ok |-> TRUE, fs |-> (p :> DirNode(w)) @@ r.fs,
                   made |-> r.made \cup {p}]

MkdirAll(f, path, w) == MkdirAllAbs(f, Abs(path), w)

\* os.OpenFile(path, O_CREATE|O_WRONLY|O_TRUNC, mode): an existing file is
\* truncated when the owner may write it and keeps its mode; a new file is
\* created with the mode in a directory the owner may write.
OpenFile(f, path, w) ==
    LET p == Abs(path)
    IN  IF p \in DOMAIN f
        THEN IF f[p].dir \/ ~f[p].w THEN [ok |-> FALSE, fs |-> f]
             ELSE [ok |-> TRUE, fs |-> [f EXCEPT ![p].data = 0]]
        ELSE IF Dir(p) \notin DOMAIN f \/ ~f[Dir(p)].dir \/ ~f[Dir(p)].w
        THEN [ok |-> FALSE, fs |-> f]
        ELSE [ok |-> TRUE, fs |-> (p :> FileNode(0, w, 0)) @@ f]

\* Names in byte order.
RECURSIVE LexLess(_, _)
LexLess(a, b) ==
    IF b = <<>> THEN FALSE
    ELSE IF a = <<>> THEN TRUE
    ELSE IF Head(a) = Head(b) THEN LexLess(Tail(a), Tail(b))
    ELSE CharOrd(Head(a)) < CharOrd(Head(b))

RECURSIVE SortNames(_)
SortNames(S) ==
    IF S = {} THEN <<>>
    ELSE LET m == CHOOSE x \in S : \A y \in S : x = y \/ LexLess(x, y)
         IN  <<m>> \o SortNames(S \ {m})

\* readDirNames: the names in a directory, sorted.
readDirNames(f, p) ==
    SortNames({Base(q) : q \in {c \in DOMAIN f : c # <<Sep>> /\ Dir(c) = p}})

\* ------------------------------------------------------------------- state
VARIABLES
    fs,      \* the file system: absolute cleaned path -> node
    arch,    \* the archive file at zipPath: [exists, final, entries]
    pc,      \* the call in progress: "idle", "zip", "unzip" or "list"
    zf,      \* the frame of Zip: [st, files, opts, level, i, err, from]; from[k]
             \* is the index in files of the source path entry k was added for
    uf,      \* the frame of Unzip: [opts, outputDir, absOutputDir, files, i, err]
    copts,   \* the UnzipOptions the caller passes
    out,     \* the lines written to the status sink
    made,    \* the paths the Unzip call in progress has created or written
    calls,   \* the Unzip calls that have returned: [opts, err, made, out]
    mname,   \* matchesAny: the name argument
    mpats,   \* matchesAny: the patterns argument
    mdone,   \* matchesAny has returned
    mres,    \* matchesAny: the value returned
    lf,      \* the frame of List: [st, entries, err]
    hnd,     \* the handles of the call in progress: [open, log]; log is the
             \* sequence of the opens and closes since the call began
    io       \* I/O failures: [faults, failed, call]; faults are the kinds of
             \* step the environment may fail, failed the steps it has failed
             \* since the last call of Zip or Unzip began, call that call

vars ==
    <<fs, arch, pc, zf, uf, copts, out, made, calls, mname, mpats, mdone, mres,
      lf, hnd, io>>

NoErr == [kind |-> "none", arg |-> <<>>]
Err(kind, arg) == [kind |-> kind, arg |-> arg]

\* A handle the program holds: the kind of thing opened and its path or name.
Handle(kind, path) == [kind |-> kind, path |-> path]
Opened(h) == [op |-> "open", h |-> h]
Closed(h) == [op |-> "close", h |-> h]

NoHandles == [open |-> {}, log |-> <<>>]

\* An environment in which no read, write, close or chtimes fails.
NoFaults == [faults |-> {}, failed |-> <<>>, call |-> "none"]

\* What the environment may fail in one step: nothing, or one kind of step.
\* "open": os.Open of a source file, Open of an entry; "copy": io.Copy;
\* "chtimes": os.Chtimes; "close": Close of a file written or of the writer.
FaultChoices(e) == {{}} \cup {{k} : k \in e.faults}

\* The handles after the opens and closes evs, in order.
RECURSIVE ApplyEvents(_, _)
ApplyEvents(hs, evs) ==
    IF evs = <<>> THEN hs
    ELSE ApplyEvents([open |-> IF Head(evs).op = "open"
                               THEN hs.open \cup {Head(evs).h}
                               ELSE hs.open \ {Head(evs).h},
                      log |-> Append(hs.log, Head(evs))],
                     Tail(evs))

\* --------------------------------------------------------------------- Zip
\* flate.NewWriter accepts the levels -2 (HuffmanOnly) to 9.
FlateLevelOK(level) == level >= -2 /\ level <= 9

\* ClampLevel without the range test.
ClampLevelUnchecked(level) == level

\* The level the registered compressor uses: Zip, lines 32-35.
ClampLevel(level) == IF level < -1 \/ level > 9 THEN -1 ELSE level

\* The method writeFileToZip puts in the header.
HeaderMethod(opts) == IF opts.CompressionLevel = 0 THEN "store" ELSE "deflate"

\* writeFileToZip that names the entry by the last element of the path.
writeFileToZipBaseName(f, path, opts, level, flt) ==
    LET node == f[Stat(f, path).p]
        method == HeaderMethod(opts)
        src == Handle("source", path)
        entry(data) == [name |-> Base(path), dir |-> FALSE, data |-> data,
                        w |-> node.w, mt |-> node.mt, method |-> method,
                        level |-> IF method = "deflate" THEN level ELSE 0]
        none == [err |-> NoErr, entries |-> <<>>, lines |-> <<>>, ev |-> <<>>,
                 hit |-> <<>>]
    IN  IF method = "deflate" /\ ~FlateLevelOK(level)
        THEN [none EXCEPT !.err = Err("create header", path)]
        ELSE IF "open" \in flt
        THEN [none EXCEPT !.err = Err("open", path), !.entries = <<entry(0)>>,
                          !.hit = <<[step |-> "open", path |-> path]>>]
        ELSE IF "copy" \in flt
        THEN [none EXCEPT !.err = Err("write", path), !.entries = <<entry(0)>>,
                          !.ev = <<Opened(src), Closed(src)>>,
                          !.hit = <<[step |-> "copy", path |-> path]>>]
        ELSE [none EXCEPT !.entries = <<entry(node.data)>>,
                          !.lines = <<[msg |-> "adding", path |-> path]>>,
                          !.ev = <<Opened(src), Closed(src)>>]

\* writeFileToZip: the header from the file's info, the entry created in the
\* writer (the registered compressor is built when the method is deflate),
\* the file opened and its content copied; the file is closed on return.
\* CreateHeader has written the header when os.Open or io.Copy fails, so the
\* entry stays, without the content.  [err, entries, lines, ev, hit]: ev are
\* the opens and closes, hit the steps the environment failed (flt).
writeFileToZip(f, path, opts, level, flt) ==
    LET node == f[Stat(f, path).p]
        method == HeaderMethod(opts)
        src == Handle("source", path)
        entry(data) == [name |-> ToSlash(path), dir |-> FALSE, data |-> data,
                        w |-> node.w, mt |-> node.mt, method |-> method,
                        level |-> IF method = "deflate" THEN level ELSE 0]
        none == [err |-> NoErr, entries |-> <<>>, lines |-> <<>>, ev |-> <<>>,
                 hit |-> <<>>]
    IN  IF method = "deflate" /\ ~FlateLevelOK(level)
        THEN [none EXCEPT !.err = Err("create header", path)]
        ELSE IF "open" \in flt
        THEN [none EXCEPT !.err = Err("open", path), !.entries = <<entry(0)>>,
                          !.hit = <<[step |-> "open", path |-> path]>>]
        ELSE IF "copy" \in flt
        THEN [none EXCEPT !.err = Err("write", path), !.entries = <<entry(0)>>,
                          !.ev = <<Opened(src), Closed(src)>>,
                          !.hit = <<[step |-> "copy", path |-> path]>>]
        ELSE [none EXCEPT !.entries = <<entry(node.data)>>,
                          !.lines = <<[msg |-> "adding", path |-> path]>>,
                          !.ev = <<Opened(src), Closed(src)>>]

\* The files writeFileToZip is called for, in order, until one fails.
RECURSIVE writeFiles(_, _, _, _, _, _)
writeFiles(f, paths, opts, level, flt, acc) ==
    IF paths = <<>> THEN acc
    ELSE LET r == writeFileToZip(f, Head(paths), opts, level, flt)
             next == [acc EXCEPT !.err = r.err,
                                 !.entries = @ \o r.entries,
                                 !.lines = @ \o r.lines,
                                 !.ev = @ \o r.ev,
                                 !.hit = @ \o r.hit]
         IN  IF r.err.kind # "none" THEN next
             ELSE writeFiles(f, Tail(paths), opts, level, flt, next)

\* filepath.Walk with the function addToZip passes: the paths of the files
\* the function hands to writeFileToZip, in the order visited.  A path that
\* matches an exclusion pattern is skipped: a file alone, a directory with
\* everything below it (filepath.SkipDir).
RECURSIVE walk(_, _, _)
RECURSIVE walkNames(_, _, _, _)
walkNames(f, path, names, excl) ==
    IF names = <<>> THEN <<>>
    ELSE walk(f, Join(path, Head(names)), excl) \o walkNames(f, path, Tail(names), excl)

\* walk where an excluded directory is passed over but still descended into.
walkNoSkipDir(f, path, excl) ==
    LET p == Stat(f, path).p
    IN  IF ~f[p].dir THEN IF matchesAny(path, excl) THEN <<>> ELSE <<path>>
        ELSE walkNames(f, path, readDirNames(f, p), excl)

\* walk where a directory that is not excluded is handed to writeFileToZip
\* as well.
walkWritesDirectories(f, path, excl) ==
    LET p == Stat(f, path).p
    IN  IF matchesAny(path, excl) THEN <<>>
        ELSE IF ~f[p].dir THEN <<path>>
        ELSE <<path>> \o walkNames(f, path, readDirNames(f, p), excl)

walk(f, path, excl) ==
    LET p == Stat(f, path).p
    IN  IF matchesAny(path, excl) THEN <<>>
        ELSE IF ~f[p].dir THEN <<path>>
        ELSE walkNames(f, path, readDirNames(f, p), excl)

\* addToZip that walks a directory whatever opts.Recursive says.
addToZipAlwaysWalks(f, path, opts, level, flt) ==
    LET st == Stat(f, path)
        none == [err |-> NoErr, entries |-> <<>>, lines |-> <<>>, ev |-> <<>>,
                 hit |-> <<>>]
    IN  IF ~st.ok THEN [none EXCEPT !.err = Err("stat", path)]
        ELSE IF f[st.p].dir
        THEN writeFiles(f, walk(f, path, opts.ExcludePatterns), opts, level, flt, none)
        ELSE IF matchesAny(path, opts.ExcludePatterns) THEN none
        ELSE writeFiles(f, <<path>>, opts, level, flt, none)

\* addToZip: [err, entries, lines, ev, hit].
addToZip(f, path, opts, level, flt) ==
    LET st == Stat(f, path)
        none == [err |-> NoErr, entries |-> <<>>, lines |-> <<>>, ev |-> <<>>,
                 hit |-> <<>>]
    IN  IF ~st.ok THEN [none EXCEPT !.err = Err("stat", path)]
        ELSE IF f[st.p].dir
        THEN IF ~opts.Recursive
             THEN [none EXCEPT !.lines = <<[msg |-> "skipped", path |-> path]>>]
             ELSE writeFiles(f, walk(f, path, opts.ExcludePatterns), opts, level, flt,
                             none)
        ELSE IF matchesAny(path, opts.ExcludePatterns) THEN none
        ELSE writeFiles(f, <<path>>, opts, level, flt, none)

\* Zip, lines 17-38: the archive file is created (truncated), the writer is
\* made and the compressor registered.
ZipStart(files, opts) ==
    /\ pc = "idle"
    /\ pc' = "zip"
    /\ arch' = [exists |-> TRUE, final |-> FALSE, entries |-> <<>>]
    /\ zf' = [st |-> "run", files |-> files, opts |-> opts,
              level |-> ClampLevel(opts.CompressionLevel), i |-> 1, err |-> NoErr,
              from |-> <<>>]
    /\ out' = <<>>
    /\ hnd' = ApplyEvents(NoHandles, <<Opened(Handle("archive file", <<>>)),
                                       Opened(Handle("writer", <<>>))>>)
    /\ io' = [io EXCEPT !.failed = <<>>, !.call = "zip"]
    /\ UNCHANGED <<fs, uf, copts, made, calls, mname, mpats, mdone, mres, lf>>

\* Zip, lines 40-44: one iteration of the loop over files.
ZipAdd ==
    /\ pc = "zip"
    /\ zf.err.kind = "none"
    /\ zf.i <= Len(zf.files)
    /\ \E flt \in FaultChoices(io) :
       \E r \in {addToZip(fs, zf.files[zf.i], zf.opts, zf.level, flt)} :
           /\ arch' = [arch EXCEPT !.entries = @ \o r.entries]
           /\ out' = IF zf.opts.Output THEN out \o r.lines ELSE out
           /\ zf' = [zf EXCEPT !.i = @ + 1, !.err = r.err,
                               !.from = @ \o [k \in 1..Len(r.entries) |-> zf.i]]
           /\ hnd' = ApplyEvents(hnd, r.ev)
           /\ io' = [io EXCEPT !.failed = @ \o r.hit]
    /\ UNCHANGED <<fs, pc, uf, copts, made, calls, mname, mpats, mdone, mres, lf>>

\* The deferred calls of Zip, lines 26 and 29, in the order they run: last
\* deferred, first run.
zipDeferred ==
    <<Closed(Handle("writer", <<>>)), Closed(Handle("archive file", <<>>))>>

\* Zip returns, with the error of the failed addToZip or nil: the deferred
\* w.Close() writes the central directory, then f.Close().  What the two
\* return is dropped: when they fail the archive is not complete and Zip
\* returns what it would have returned.
ZipReturn ==
    /\ pc = "zip"
    /\ zf.err.kind # "none" \/ zf.i > Len(zf.files)
    /\ \E flt \in FaultChoices(io) :
           /\ arch' = [arch EXCEPT !.final = "close" \notin flt]
           /\ io' = IF "close" \in flt
                    THEN [io EXCEPT !.failed =
                             Append(@, [step |-> "close", path |-> <<>>])]
                    ELSE io
    /\ zf' = [zf EXCEPT !.st = "ret"]
    /\ hnd' = ApplyEvents(hnd, zipDeferred)
    /\ pc' = "idle"
    /\ UNCHANGED <<fs, uf, copts, out, made, calls, mname, mpats, mdone, mres, lf>>

\* ------------------------------------------------------------------- Unzip
\* The path of the archive file.
ZipPath == <<"z">>

\* The error of zip.OpenReader, wrapped: for a missing file the error of
\* os.Open, which names the path; for a file that is no archive
\* zip.ErrFormat, which names nothing.
openArchiveErr(a) == Err("open archive", IF a.exists THEN <<>> ELSE ZipPath)

\* f.FileInfo().IsDir(): the directory bit of the entry's attributes, or a
\* name that ends with a slash.
IsDirEntry(e) == e.dir \/ (e.name # <<>> /\ e.name[Len(e.name)] = "/")

\* The zip-slip test without the separator after the root.
InsideRootNoSeparator(absDest, absOutputDir) == HasPrefix(absDest, absOutputDir)

\* The zip-slip test of Unzip, line 154.
InsideRoot(absDest, absOutputDir) ==
    HasPrefix(absDest, absOutputDir \o <<Sep>>) \/ absDest = absOutputDir

\* The target name with JunkPaths left out of account.
TargetNameKeepsPath(e, opts) == e.name

\* The name Unzip joins to the output directory, lines 142-145.
TargetName(e, opts) == IF opts.JunkPaths THEN Base(e.name) ELSE e.name

\* The filter without the test for an empty pattern list.
FilteredAlways(e, opts) == ~matchesAny(e.name, opts.FilePatterns)

\* Whether the entry is skipped by the filter, line 138.
Filtered(e, opts) ==
    Len(opts.FilePatterns) > 0 /\ ~matchesAny(e.name, opts.FilePatterns)

\* extractFile without the test for an existing destination.
extractFileNoExistsCheck(f, e, destPath, overwrite, flt) ==
    LET m == MkdirAll(f, Dir(destPath), TRUE)
        o == OpenFile(m.fs, destPath, e.w)
        rc == Handle("entry", e.name)
        w == Handle("destination", destPath)
        all == <<Opened(rc), Opened(w), Closed(w), Closed(rc)>>
        none == [fs |-> f, err |-> NoErr, made |-> {}, lines |-> <<>>, ev |-> <<>>,
                 hit |-> <<>>]
    IN  IF ~m.ok
        THEN [none EXCEPT !.fs = m.fs, !.err = Err("mkdir for", destPath),
                          !.made = m.made]
        ELSE IF "open" \in flt
        THEN [none EXCEPT !.fs = m.fs, !.err = Err("open entry", e.name),
                          !.made = m.made,
                          !.hit = <<[step |-> "open", path |-> e.name]>>]
        ELSE IF ~o.ok
        THEN [none EXCEPT !.fs = m.fs, !.err = Err("create", destPath),
                          !.made = m.made, !.ev = <<Opened(rc), Closed(rc)>>]
        ELSE IF "copy" \in flt
        THEN [none EXCEPT !.fs = o.fs, !.err = Err("extract", e.name),
                          !.made = m.made \cup {Abs(destPath)}, !.ev = all,
                          !.hit = <<[step |-> "copy", path |-> e.name]>>]
        ELSE [none EXCEPT !.fs = [o.fs EXCEPT ![Abs(destPath)].data = e.data],
                          !.made = m.made \cup {Abs(destPath)},
                          !.lines = <<[msg |-> "inflating", path |-> destPath]>>,
                          !.ev = all,
                          !.hit = IF "close" \in flt
                                  THEN <<[step |-> "close", path |-> destPath]>>
                                  ELSE <<>>]

\* extractFile that returns without closing the entry when the destination
\* cannot be created.
extractFileLeaksEntry(f, e, destPath, overwrite, flt) ==
    LET m == MkdirAll(f, Dir(destPath), TRUE)
        o == OpenFile(m.fs, destPath, e.w)
        rc == Handle("entry", e.name)
        w == Handle("destination", destPath)
        all == <<Opened(rc), Opened(w), Closed(w), Closed(rc)>>
        none == [fs |-> f, err |-> NoErr, made |-> {}, lines |-> <<>>, ev |-> <<>>,
                 hit |-> <<>>]
    IN  IF ~overwrite /\ Stat(f, destPath).ok
        THEN [none EXCEPT !.err = Err("file exists", destPath)]
        ELSE IF ~m.ok
        THEN [none EXCEPT !.fs = m.fs, !.err = Err("mkdir for", destPath),
                          !.made = m.made]
        ELSE IF "open" \in flt
        THEN [none EXCEPT !.fs = m.fs, !.err = Err("open entry", e.name),
                          !.made = m.made,
                          !.hit = <<[step |-> "open", path |-> e.name]>>]
        ELSE IF ~o.ok
        THEN [none EXCEPT !.fs = m.fs, !.err = Err("create", destPath),
                          !.made = m.made, !.ev = <<Opened(rc)>>]
        ELSE IF "copy" \in flt
        THEN [none EXCEPT !.fs = o.fs, !.err = Err("extract", e.name),
                          !.made = m.made \cup {Abs(destPath)}, !.ev = all,
                          !.hit = <<[step |-> "copy", path |-> e.name]>>]
        ELSE [none EXCEPT !.fs = [o.fs EXCEPT ![Abs(destPath)].data = e.data],
                          !.made = m.made \cup {Abs(destPath)},
                          !.lines = <<[msg |-> "inflating", path |-> destPath]>>,
                          !.ev = all,
                          !.hit = IF "close" \in flt
                                  THEN <<[step |-> "close", path |-> destPath]>>
                                  ELSE <<>>]

\* extractFile: the collision check, the parent directories, the entry
\* opened, the destination created and the content copied; the deferred
\* closes run on return, the destination first.  What the Close of the
\* destination returns is dropped.  A failed copy leaves the file without
\* the content.  [fs, err, made, lines, ev, hit].
extractFile(f, e, destPath, overwrite, flt) ==
    LET m == MkdirAll(f, Dir(destPath), TRUE)
        o == OpenFile(m.fs, destPath, e.w)
        rc == Handle("entry", e.name)
        w == Handle("destination", destPath)
        all == <<Opened(rc), Opened(w), Closed(w), Closed(rc)>>
        none == [fs |-> f, err |-> NoErr, made |-> {}, lines |-> <<>>, ev |-> <<>>,
                 hit |-> <<>>]
    IN  IF ~overwrite /\ Stat(f, destPath).ok
        THEN [none EXCEPT !.err = Err("file exists", destPath)]
        ELSE IF ~m.ok
        THEN [none EXCEPT !.fs = m.fs, !.err = Err("mkdir for", destPath),
                          !.made = m.made]
        ELSE IF "open" \in flt
        THEN [none EXCEPT !.fs = m.fs, !.err = Err("open entry", e.name),
                          !.made = m.made,
                          !.hit = <<[step |-> "open", path |-> e.name]>>]
        ELSE IF ~o.ok
        THEN [none EXCEPT !.fs = m.fs, !.err = Err("create", destPath),
                          !.made = m.made, !.ev = <<Opened(rc), Closed(rc)>>]
        ELSE IF "copy" \in flt
        THEN [none EXCEPT !.fs = o.fs, !.err = Err("extract", e.name),
                          !.made = m.made \cup {Abs(destPath)}, !.ev = all,
                          !.hit = <<[step |-> "copy", path |-> e.name]>>]
        ELSE [none EXCEPT !.fs = [o.fs EXCEPT ![Abs(destPath)].data = e.data],
                          !.made = m.made \cup {Abs(destPath)},
                          !.lines = <<[msg |-> "inflating", path |-> destPath]>>,
                          !.ev = all,
                          !.hit = IF "close" \in flt
                                  THEN <<[step |-> "close", path |-> destPath]>>
                                  ELSE <<>>]

\* The body of the loop of Unzip for entry e, lines 138-172.
unzipEntry(f, e, opts, outputDir, absOutputDir, flt) ==
    LET destPath == Join(outputDir, TargetName(e, opts))
        absDest == Abs(destPath)
        same == [fs |-> f, err |-> NoErr, made |-> {}, lines |-> <<>>, ev |-> <<>>,
                 hit |-> <<>>]
    IN  IF Filtered(e, opts) THEN same
        ELSE IF ~InsideRoot(absDest, absOutputDir)
        THEN [same EXCEPT !.err = Err("illegal file path", e.name)]
        ELSE IF IsDirEntry(e)
        THEN LET m == MkdirAll(f, destPath, e.w)
             IN  [same EXCEPT !.fs = m.fs,
                              !.err = IF m.ok THEN NoErr ELSE Err("mkdir", destPath),
                              !.made = m.made]
        ELSE LET x == extractFile(f, e, destPath, opts.Overwrite, flt)
             IN  IF x.err.kind # "none" THEN x
                 ELSE IF "chtimes" \in flt
                 THEN [x EXCEPT !.err = Err("chtimes", destPath),
                                !.hit = @ \o <<[step |-> "chtimes", path |-> destPath]>>]
                 ELSE [x EXCEPT !.fs = [x.fs EXCEPT ![absDest].mt = e.mt]]

\* Unzip, lines 116-135: the output directory is resolved and the archive
\* opened; a missing or unfinished archive file is no zip file.
UnzipStart(opts) ==
    /\ pc = "idle"
    /\ pc' = "unzip"
    /\ LET outputDir == IF opts.OutputDir = <<>> THEN Dot ELSE opts.OutputDir
           opened == arch.exists /\ arch.final
       IN  /\ uf' = [opts |-> opts, outputDir |-> outputDir,
                     absOutputDir |-> Abs(outputDir),
                     files |-> IF opened THEN arch.entries ELSE <<>>,
                     i |-> 1,
                     err |-> IF opened THEN NoErr ELSE openArchiveErr(arch)]
           /\ hnd' = IF opened
                     THEN ApplyEvents(NoHandles, <<Opened(Handle("reader", <<>>))>>)
                     ELSE NoHandles
    /\ made' = {}
    /\ out' = <<>>
    /\ io' = [io EXCEPT !.failed = <<>>, !.call = "unzip"]
    /\ UNCHANGED <<fs, arch, zf, copts, calls, mname, mpats, mdone, mres, lf>>

\* The loop of Unzip going on to the next entry after a failure.
UnzipEntryGoesOn ==
    /\ pc = "unzip"
    /\ uf.i <= Len(uf.files)
    /\ \E flt \in FaultChoices(io) :
       \E r \in {unzipEntry(fs, uf.files[uf.i], uf.opts, uf.outputDir,
                            uf.absOutputDir, flt)} :
           /\ fs' = r.fs
           /\ made' = made \cup r.made
           /\ out' = IF uf.opts.Output THEN out \o r.lines ELSE out
           /\ uf' = [uf EXCEPT !.i = @ + 1,
                               !.err = IF r.err.kind = "none" THEN @ ELSE r.err]
           /\ hnd' = ApplyEvents(hnd, r.ev)
           /\ io' = [io EXCEPT !.failed = @ \o r.hit]
    /\ UNCHANGED <<arch, pc, zf, copts, calls, mname, mpats, mdone, mres, lf>>

\* Unzip, lines 137-173: one iteration of the loop over r.File.
UnzipEntry ==
    /\ pc = "unzip"
    /\ uf.err.kind = "none"
    /\ uf.i <= Len(uf.files)
    /\ \E flt \in FaultChoices(io) :
       \E r \in {unzipEntry(fs, uf.files[uf.i], uf.opts, uf.outputDir,
                            uf.absOutputDir, flt)} :
           /\ fs' = r.fs
           /\ made' = made \cup r.made
           /\ out' = IF uf.opts.Output THEN out \o r.lines ELSE out
           /\ uf' = [uf EXCEPT !.i = IF r.err.kind = "none" THEN @ + 1 ELSE @,
                               !.err = r.err]
           /\ hnd' = ApplyEvents(hnd, r.ev)
           /\ io' = [io EXCEPT !.failed = @ \o r.hit]
    /\ UNCHANGED <<arch, pc, zf, copts, calls, mname, mpats, mdone, mres, lf>>

\* Unzip returns, with the error of the failed step or nil; the deferred
\* r.Close() runs when the archive was opened.
UnzipReturn ==
    /\ pc = "unzip"
    /\ uf.err.kind # "none" \/ uf.i > Len(uf.files)
    /\ pc' = "idle"
    /\ calls' = Append(calls, [opts |-> uf.opts, err |-> uf.err, made |-> made,
                                out |-> out])
    /\ hnd' = IF uf.err.kind # "open archive"
              THEN ApplyEvents(hnd, <<Closed(Handle("reader", <<>>))>>)
              ELSE hnd
    /\ UNCHANGED <<fs, arch, zf, uf, copts, out, made, mname, mpats, mdone, mres,
                   lf, io>>

\* -------------------------------------------------------------------- List
\* The ListEntry List makes of an entry, lines 218-224.  The content of a
\* file is a number, which stands for its size as well; the compressed size
\* is left out.
ListEntryOf(e) ==
    [Name |-> e.name, UncompressedSize |-> e.data, Modified |-> e.mt,
     IsDir |-> IsDirEntry(e)]

\* The loop of List leaving out the directories.
listEntriesFilesOnly(files) ==
    LET all == [k \in 1..Len(files) |-> ListEntryOf(files[k])]
        IsFile(x) == ~x.IsDir
    IN  SelectSeq(all, IsFile)

\* List, lines 216-225: the loop over r.File.
listEntries(files) == [k \in 1..Len(files) |-> ListEntryOf(files[k])]

\* List, lines 210-214: the archive is opened.
ListOpen ==
    /\ pc = "idle"
    /\ pc' = "list"
    /\ LET opened == arch.exists /\ arch.final
       IN  /\ lf' = [st |-> "run", entries |-> <<>>,
                     err |-> IF opened THEN NoErr ELSE openArchiveErr(arch)]
           /\ hnd' = IF opened
                     THEN ApplyEvents(NoHandles, <<Opened(Handle("reader", <<>>))>>)
                     ELSE NoHandles
    /\ UNCHANGED <<fs, arch, zf, uf, copts, out, made, calls, mname, mpats, mdone,
                   mres, io>>

\* List returns the entries, or nil and the error; the deferred r.Close()
\* runs.
ListReturn ==
    /\ pc = "list"
    /\ pc' = "idle"
    /\ lf' = [lf EXCEPT !.st = "ret",
                        !.entries = IF lf.err.kind = "none"
                                    THEN listEntries(arch.entries) ELSE <<>>]
    /\ hnd' = IF lf.err.kind = "none"
              THEN ApplyEvents(hnd, <<Closed(Handle("reader", <<>>))>>)
              ELSE hnd
    /\ UNCHANGED <<fs, arch, zf, uf, copts, out, made, calls, mname, mpats, mdone,
                   mres, io>>

\* -------------------------------------------------------------- matchesAny
\* A call of matchesAny(mname, mpats).
CallMatchesAny ==
    /\ pc = "idle"
    /\ ~mdone
    /\ mdone' = TRUE
    /\ mres' = matchesAny(mname, mpats)
    /\ UNCHANGED <<fs, arch, pc, zf, uf, copts, out, made, calls, mname, mpats, lf, hnd, io>>

\* ----------------------------------------------------------- initial state
\* The file system the calls start from: the working directory /w holds a
\* file a and a directory d with a read-only file a and a file b; /p is a
\* file beside the working directory.
SrcFS ==
    (<<"/">> :> DirNode(TRUE)) @@
    (<<"/", "w">> :> DirNode(TRUE)) @@
    (<<"/", "w", "/", "a">> :> FileNode(1, TRUE, 1)) @@
    (<<"/", "w", "/", "d">> :> DirNode(TRUE)) @@
    (<<"/", "w", "/", "d", "/", "a">> :> FileNode(2, FALSE, 2)) @@
    (<<"/", "w", "/", "d", "/", "b">> :> FileNode(3, TRUE, 1)) @@
    (<<"/", "p">> :> FileNode(4, TRUE, 2))

NoArchive == [exists |-> FALSE, final |-> FALSE, entries |-> <<>>]

ZipOptions0 ==
    [Recursive |-> FALSE, CompressionLevel |-> 0, ExcludePatterns |-> <<>>,
     Output |-> FALSE]

UnzipOptions0 ==
    [OutputDir |-> <<>>, Overwrite |-> FALSE, JunkPaths |-> FALSE,
     FilePatterns |-> <<>>, Output |-> FALSE]

ZipFrame0 ==
    [st |-> "new", files |-> <<>>, opts |-> ZipOptions0, level |-> 0, i |-> 1,
     err |-> NoErr, from |-> <<>>]

ListFrame0 == [st |-> "new", entries |-> <<>>, err |-> NoErr]

UnzipFrame0 ==
    [opts |-> UnzipOptions0, outputDir |-> Dot, absOutputDir |-> Cwd,
     files |-> <<>>, i |-> 1, err |-> NoErr]

\* Everything but the inputs a specification draws.
InitIdle ==
    /\ fs = SrcFS
    /\ pc = "idle"
    /\ zf = ZipFrame0
    /\ uf = UnzipFrame0
    /\ out = <<>>
    /\ made = {}
    /\ calls = <<>>
    /\ mdone = FALSE
    /\ mres = FALSE
    /\ lf = ListFrame0
    /\ hnd = NoHandles

\* ------------------------------------------- specification: matchesAny
\* Sequences of length at most n over the set S.
RECURSIVE SeqsUpTo(_, _)
SeqsUpTo(S, n) ==
    IF n = 0 THEN {<<>>}
    ELSE LET T == SeqsUpTo(S, n - 1)
         IN  T \cup {Append(t, x) : t \in {u \in T : Len(u) = n - 1}, x \in S}

NameAlphabet == {"a", "b", "/"}
PatAlphabet == {"a", "*", "?", "[", "]", "\\", "-", "^"}

MatchNames ==
    StringsUpTo(NameAlphabet, MaxNameLen) \cup
    {<<"d", "/", "a">>, <<"a", "/", "/">>, <<"/", "a", "b">>, <<"a", "b", "a", "b">>}

\* Patterns tried together with others.
ListPatterns ==
    {<<"a">>, <<"[">>, <<"*", "b">>, <<"[", "a", "-", "b", "]">>, <<"a", "\\">>}

MatchPatterns ==
    {<<p>> : p \in StringsUpTo(PatAlphabet, MaxPatLen) \cup
                   {<<"[", "^", "a", "]">>, <<"[", "a", "-", "b", "]">>,
                    <<"a", "*", "b">>, <<"*", "a", "*", "b">>, <<"[", "b", "-", "a", "]">>,
                    <<"[", "\\", "]", "]">>, <<"a", "[", "^", "a", "]", "*">>}}
    \cup SeqsUpTo(ListPatterns, MaxPats)

InitMatch ==
    /\ InitIdle
    /\ io = NoFaults
    /\ arch = NoArchive
    /\ copts = UnzipOptions0
    /\ mname \in MatchNames
    /\ mpats \in MatchPatterns

NextMatch == CallMatchesAny

SpecMatch == InitMatch /\ [][NextMatch]_vars

\* The glob language of the patterns, stated from its grammar:
\*   pattern: { term }
\*   term:    '*' | '?' | '[' [ '^' ] { range } ']' | c | '\\' c
\*   range:   ch | ch '-' ch       ch: c | '\\' c, c not '\\', '-' or ']'
\* GlobChar: one ch at the front of p, [ok, c, rest].
GlobChar(p) ==
    IF p = <<>> \/ Head(p) \in {"-", "]"} THEN [ok |-> FALSE, c |-> "", rest |-> <<>>]
    ELSE IF Head(p) = "\\"
    THEN IF Len(p) < 2 THEN [ok |-> FALSE, c |-> "", rest |-> <<>>]
         ELSE [ok |-> TRUE, c |-> p[2], rest |-> SubSeq(p, 3, Len(p))]
    ELSE [ok |-> TRUE, c |-> Head(p), rest |-> Tail(p)]

\* The ranges of a class up to its closing bracket: [ok, ranges, rest].
RECURSIVE GlobRanges(_, _)
GlobRanges(p, ranges) ==
    IF p # <<>> /\ Head(p) = "]" /\ ranges # {}
    THEN [ok |-> TRUE, ranges |-> ranges, rest |-> Tail(p)]
    ELSE LET lo == GlobChar(p)
         IN  IF ~lo.ok THEN [ok |-> FALSE, ranges |-> {}, rest |-> <<>>]
             ELSE IF lo.rest # <<>> /\ Head(lo.rest) = "-"
             THEN LET hi == GlobChar(Tail(lo.rest))
                  IN  IF ~hi.ok THEN [ok |-> FALSE, ranges |-> {}, rest |-> <<>>]
                      ELSE GlobRanges(hi.rest, ranges \cup {<<lo.c, hi.c>>})
             ELSE GlobRanges(lo.rest, ranges \cup {<<lo.c, lo.c>>})

\* The terms of a pattern: [ok, terms].
RECURSIVE GlobTerms(_, _)
GlobTerms(p, terms) ==
    IF p = <<>> THEN [ok |-> TRUE, terms |-> terms]
    ELSE IF Head(p) = "*" THEN GlobTerms(Tail(p), Append(terms, [t |-> "star"]))
    ELSE IF Head(p) = "?" THEN GlobTerms(Tail(p), Append(terms, [t |-> "any"]))
    ELSE IF Head(p) = "\\"
    THEN IF Len(p) < 2 THEN [ok |-> FALSE, terms |-> <<>>]
         ELSE GlobTerms(SubSeq(p, 3, Len(p)), Append(terms, [t |-> "lit", c |-> p[2]]))
    ELSE IF Head(p) = "["
    THEN LET neg == Len(p) >= 2 /\ p[2] = "^"
             cl == GlobRanges(SubSeq(p, IF neg THEN 3 ELSE 2, Len(p)), {})
         IN  IF ~cl.ok THEN [ok |-> FALSE, terms |-> <<>>]
             ELSE GlobTerms(cl.rest,
                            Append(terms, [t |-> "class", neg |-> neg, ranges |-> cl.ranges]))
    ELSE GlobTerms(Tail(p), Append(terms, [t |-> "lit", c |-> Head(p)]))

InRanges(c, ranges) ==
    \E r \in ranges : CharOrd(r[1]) <= CharOrd(c) /\ CharOrd(c) <= CharOrd(r[2])

\* Whether the terms match the whole of s: a star stands for any run of
\* characters other than the separator, '?' for one such character.
RECURSIVE TermsMatch(_, _)
TermsMatch(terms, s) ==
    IF terms = <<>> THEN s = <<>>
    ELSE LET t == Head(terms)
         IN  IF t.t = "star"
             THEN \E k \in 0..Len(s) :
                     /\ ~Contains(SubSeq(s, 1, k), Sep)
                     /\ TermsMatch(Tail(terms), SubSeq(s, k + 1, Len(s)))
             ELSE /\ s # <<>>
                  /\ CASE t.t = "any" -> Head(s) # Sep
                       [] t.t = "lit" -> Head(s) = t.c
                       [] OTHER -> InRanges(Head(s), t.ranges) # t.neg
                  /\ TermsMatch(Tail(terms), Tail(s))

GlobValid(p) == GlobTerms(p, <<>>).ok
GlobMatches(p, s) == GlobValid(p) /\ TermsMatch(GlobTerms(p, <<>>).terms, s)

\* The final segment of a path: its last element that is not empty.
FinalSegment(name) ==
    LET segs == SelectSeq(Split(name), LAMBDA e : e # <<>>)
    IN  IF segs # <<>> THEN segs[Len(segs)]
        ELSE IF name = <<>> THEN Dot ELSE <<Sep>>

\* C6: matchesAny(name, patterns) is true exactly when some pattern of the
\* list is a well-formed glob that matches the final segment of name; so it
\* is false for an empty list, a malformed pattern counts as not matching,
\* and the patterns after it are still tried.
C6_MatchesAnyIsGlobOnBaseName ==
    mdone =>
        (mres <=> \E i \in 1..Len(mpats) : GlobMatches(mpats[i], FinalSegment(mname)))

\* C6: a call where a malformed pattern comes before one that matches a name
\* with a directory part.
C6_Witness ==
    /\ mdone
    /\ mres
    /\ Len(mpats) = 2
    /\ ~GlobValid(mpats[1])
    /\ Contains(mname, Sep)

\* --------------------------------------------------- specification: Zip
\* The source paths a caller lists: files, directories, the working
\* directory, a file above it, and a path that does not exist.
SrcPaths ==
    {<<"a">>, <<"d">>, <<"d", "/", "a">>, <<".">>, <<".", ".", "/", "p">>, <<"n">>}

ExcludeLists ==
    {<<>>, <<<<"d">>>>, <<<<"a">>>>, <<<<".">>>>, <<<<"[">>, <<"b">>>>}

\* CompressionLevel values on both sides of every test of the level.
Levels == {-3, -2, -1, 0, 1, 9, 10}

ZipOptionsSet ==
    [Recursive : BOOLEAN, CompressionLevel : Levels, ExcludePatterns : ExcludeLists,
     Output : BOOLEAN]

InitZip ==
    /\ InitIdle
    /\ io = NoFaults
    /\ arch = NoArchive
    /\ copts = UnzipOptions0
    /\ mname = <<>>
    /\ mpats = <<>>

\* One call of Zip on a list of source paths.
ZipOnce ==
    /\ zf.st = "new"
    /\ \E files \in SeqsUpTo(SrcPaths, MaxFiles), opts \in ZipOptionsSet :
          ZipStart(files, opts)

NextZip ==
    \/ ZipOnce
    \/ ZipAdd
    \/ ZipReturn

SpecZip == InitZip /\ [][NextZip]_vars

\* The source paths addToZip has been called for.
Processed == 1..(zf.i - 1)
IsDirSource(i) == Stat(fs, zf.files[i]).ok /\ fs[Stat(fs, zf.files[i]).p].dir
IsFileSource(i) == Stat(fs, zf.files[i]).ok /\ ~fs[Stat(fs, zf.files[i]).p].dir
EntriesFrom(i) == {k \in 1..Len(arch.entries) : zf.from[k] = i}

\* C5: when a source path cannot be statted Zip fails with an error naming
\* that path, no later source path is processed, and the archive file is
\* left unfinished: never a completed archive.
C5_NoArchiveFinalizedOnBadSource ==
    (zf.st = "ret" /\ \E i \in 1..Len(zf.files) : ~Stat(fs, zf.files[i]).ok) =>
        /\ zf.err = Err("stat", zf.files[zf.i - 1])
        /\ ~Stat(fs, zf.files[zf.i - 1]).ok
        /\ \A k \in 1..Len(arch.entries) : zf.from[k] < zf.i - 1
        /\ ~arch.final

\* The regular files below the directory at absolute path r.
FilesBelow(r) ==
    {q \in DOMAIN fs : ~fs[q].dir /\ HasPrefix(q, IF r = <<Sep>> THEN r ELSE r \o <<Sep>>)}

\* The name of the entry the walk of source path s makes for the file q.
WalkedName(s, q) ==
    LET r == Stat(fs, s).p
    IN  ToSlash(Join(s, SubSeq(q, Len(r) + (IF r = <<Sep>> THEN 1 ELSE 2), Len(q))))

\* The walk of source path i has added an entry for the file q.
Contributed(i, q) ==
    \E k \in EntriesFrom(i) : arch.entries[k].name = WalkedName(zf.files[i], q)

\* The source directory as passed, or a directory between it and q, matches
\* an exclusion pattern.
DirOnWayExcluded(s, q, excl) ==
    \/ matchesAny(s, excl)
    \/ \E d \in DOMAIN fs :
          /\ fs[d].dir
          /\ HasPrefix(d, Stat(fs, s).p \o <<Sep>>)
          /\ HasPrefix(q, d \o <<Sep>>)
          /\ matchesAny(d, excl)

ZipSucceeded == zf.st = "ret" /\ zf.err.kind = "none"

\* C7, as stated: in a recursive Zip a file below a source directory is an
\* entry exactly when the file does not match an exclusion pattern.
C7_NestedFileIncludedIffNotExcluded ==
    (ZipSucceeded /\ zf.opts.Recursive) =>
        \A i \in 1..Len(zf.files) : IsDirSource(i) =>
            \A q \in FilesBelow(Stat(fs, zf.files[i]).p) :
                Contributed(i, q) <=> ~matchesAny(q, zf.opts.ExcludePatterns)

\* C7, amended: in a recursive Zip a file below a source directory is an
\* entry exactly when neither the file, nor the source directory as passed,
\* nor a directory between them matches an exclusion pattern.
C7_NestedFileIncludedIffNothingOnWayExcluded ==
    (ZipSucceeded /\ zf.opts.Recursive) =>
        \A i \in 1..Len(zf.files) : IsDirSource(i) =>
            \A q \in FilesBelow(Stat(fs, zf.files[i]).p) :
                Contributed(i, q) <=>
                    /\ ~matchesAny(q, zf.opts.ExcludePatterns)
                    /\ ~DirOnWayExcluded(zf.files[i], q, zf.opts.ExcludePatterns)

\* C7: a recursive Zip of the working directory that has returned with the
\* directory d excluded: d/b is left out though its own name matches no
\* pattern, and a is an entry.
C7_Witness ==
    /\ ZipSucceeded
    /\ zf.opts.Recursive
    /\ zf.files = <<Dot>>
    /\ zf.opts.ExcludePatterns = <<<<"d">>>>
    /\ Contributed(1, <<"/", "w", "/", "a">>)
    /\ ~Contributed(1, <<"/", "w", "/", "d", "/", "b">>)

\* The lines of the sink that say a path was skipped.
SkippedLines(path) ==
    {k \in 1..Len(out) : out[k] = [msg |-> "skipped", path |-> path]}

\* C8: in a Zip that is not recursive every source path that is a directory
\* adds no entry and no error, the loop goes on to the next source path, so
\* the files listed after it are archived, and the sink has one "skipped"
\* line for each time a directory was listed.
C8_NonRecursiveSkipsDirectory ==
    (zf.st # "new" /\ ~zf.opts.Recursive) =>
        /\ \A i \in Processed : IsDirSource(i) =>
              /\ EntriesFrom(i) = {}
              /\ zf.err.kind # "none" => i < zf.i - 1
              /\ Cardinality(SkippedLines(zf.files[i])) =
                    IF zf.opts.Output
                    THEN Cardinality({j \in Processed : zf.files[j] = zf.files[i]})
                    ELSE 0
        /\ \A i \in Processed : \A j \in Processed :
              (IsDirSource(i) /\ j > i /\ IsFileSource(j)
                  /\ ~matchesAny(zf.files[j], zf.opts.ExcludePatterns)) =>
                 \E k \in EntriesFrom(j) :
                    /\ arch.entries[k].name = ToSlash(zf.files[j])
                    /\ arch.entries[k].data = fs[Stat(fs, zf.files[j]).p].data
        /\ (zf.st = "ret" /\ \A i \in 1..Len(zf.files) : Stat(fs, zf.files[i]).ok) =>
              zf.err.kind = "none" /\ zf.i = Len(zf.files) + 1

\* C8: a Zip that is not recursive has returned nil for a directory followed
\* by a file: one line on the sink for the directory, one entry for the file.
C8_Witness ==
    /\ ZipSucceeded
    /\ ~zf.opts.Recursive
    /\ zf.opts.Output
    /\ zf.files = <<<<"d">>, <<"a">>>>
    /\ Cardinality(SkippedLines(<<"d">>)) = 1
    /\ Len(arch.entries) = 1
    /\ arch.entries[1].name = <<"a">>

\* C10: Zip never fails because of the level; every entry is stored exactly
\* when CompressionLevel is 0 and deflated otherwise, at the configured level
\* when that lies in -1..9 and at the default, -1, when it does not.
C10_CompressionSelection ==
    zf.st # "new" =>
        /\ zf.err.kind # "create header"
        /\ \A k \in 1..Len(arch.entries) :
              LET e == arch.entries[k]
                  cl == zf.opts.CompressionLevel
              IN  /\ e.method = "store" <=> cl = 0
                  /\ e.method # "store" =>
                        /\ e.method = "deflate"
                        /\ e.level = IF cl >= -1 /\ cl <= 9 THEN cl ELSE -1

\* C10: a Zip with a level above 9 has returned nil with a deflated entry.
C10_Witness ==
    /\ ZipSucceeded
    /\ zf.opts.CompressionLevel > 9
    /\ Len(arch.entries) > 0
    /\ arch.entries[1].method = "deflate"
    /\ arch.entries[1].level = -1

\* ------------------------------------------------- specification: Unzip
\* Entries of archives as any writer of zip files can make them.
FileEntry(name, data, w) ==
    [name |-> name, dir |-> FALSE, data |-> data, w |-> w, mt |-> 3,
     method |-> "deflate", level |-> -1]
DirEntry(name, w) ==
    [name |-> name, dir |-> TRUE, data |-> 0, w |-> w, mt |-> 3,
     method |-> "store", level |-> 0]

\* A file, a read-only file in a directory, a directory, a file and a
\* directory above the root (the file beside it, under a name the root is a
\* prefix of), an absolute name, and the root itself as a file.
EntryPool ==
    {FileEntry(<<"a">>, 5, TRUE),
     FileEntry(<<"d", "/", "a">>, 6, FALSE),
     DirEntry(<<"d", "/">>, TRUE),
     FileEntry(<<".", ".", "/", "o", "b">>, 7, TRUE),
     DirEntry(<<".", ".", "/", "x", "/">>, TRUE),
     FileEntry(<<"/", "a">>, 8, TRUE),
     FileEntry(<<".">>, 9, TRUE)}

ArchiveOf(es) == [exists |-> TRUE, final |-> TRUE, entries |-> es]

\* The working directory, a missing directory in it, a missing directory in
\* a missing directory, and the root of the file system.
OutputDirs == {<<>>, <<"o">>, <<"o", "/", "r">>, <<"/">>}

FilePatternLists == {<<>>, <<<<"a">>>>, <<<<"[">>, <<"o", "*">>>>}

UnzipOptionsSet ==
    [OutputDir : OutputDirs, Overwrite : BOOLEAN, JunkPaths : BOOLEAN,
     FilePatterns : FilePatternLists, Output : {TRUE}]

InitUnzip ==
    /\ InitIdle
    /\ io = NoFaults
    /\ arch \in {NoArchive} \cup {ArchiveOf(es) : es \in SeqsUpTo(EntryPool, MaxEntries)}
    /\ copts \in UnzipOptionsSet
    /\ mname = <<>>
    /\ mpats = <<>>

\* One call of Unzip with the options drawn.
UnzipOnce ==
    /\ Len(calls) = 0
    /\ UnzipStart(copts)

NextUnzip ==
    \/ UnzipOnce
    \/ UnzipEntry
    \/ UnzipReturn

SpecUnzip == InitUnzip /\ [][NextUnzip]_vars

\* The path p is the root or begins with the root and a separator.
WithinRoot(p, root) ==
    \/ p = root
    \/ Len(p) > Len(root) /\ SubSeq(p, 1, Len(root) + 1) = root \o <<Sep>>

\* The filter selects the entry: no patterns, or a pattern matches the
\* final segment of its name.
Selected(e, opts) ==
    \/ opts.FilePatterns = <<>>
    \/ \E i \in 1..Len(opts.FilePatterns) :
          GlobMatches(opts.FilePatterns[i], FinalSegment(e.name))

\* The loop of Unzip is about to take the entry CurEntry.
AtEntry == pc = "unzip" /\ uf.err.kind = "none" /\ uf.i <= Len(uf.files)
CurEntry == uf.files[uf.i]
DestPath(e, opts, outputDir) == Join(outputDir, TargetName(e, opts))
CurDest == Abs(DestPath(CurEntry, uf.opts, uf.outputDir))

\* An entry Unzip takes whose destination is outside the root is refused
\* with an error naming it, and nothing is made of it.
RefusedOutsideRoot ==
    (AtEntry /\ Selected(CurEntry, uf.opts) /\ ~WithinRoot(CurDest, uf.absOutputDir)) =>
        /\ uf'.err = Err("illegal file path", CurEntry.name)
        /\ fs' = fs
        /\ made' = made

\* C1, as stated: every path Unzip has created or written is the output
\* root or begins with the root and a separator, and an entry whose
\* destination is not is refused with an error naming it, nothing made.
C1_EverythingMadeIsWithinRoot ==
    /\ [](\A p \in made : WithinRoot(p, uf.absOutputDir))
    /\ [][RefusedOutsideRoot]_vars

\* C1, amended: every path Unzip has created or written is the output root,
\* begins with the root and a separator, or is a directory above the root
\* that was missing before the call; an entry whose destination is outside
\* the root is refused with an error naming it, nothing made.
C1_MadeIsWithinRootOrMissingAncestor ==
    /\ [](\A p \in made :
            \/ WithinRoot(p, uf.absOutputDir)
            \/ /\ fs[p].dir
               /\ HasPrefix(uf.absOutputDir, p \o <<Sep>>)
               /\ p \notin DOMAIN SrcFS)
    /\ [][RefusedOutsideRoot]_vars

\* An entry was extracted into a root two levels down, which made the
\* directory above the root, and the next entry, outside the root, was
\* refused.
C1_Witness ==
    /\ pc = "idle"
    /\ Len(calls) = 1
    /\ calls[1].err.kind = "illegal file path"
    /\ \E p \in calls[1].made : WithinRoot(p, uf.absOutputDir) /\ ~fs[p].dir
    /\ \E p \in calls[1].made : ~WithinRoot(p, uf.absOutputDir)

\* C9: with patterns, an entry whose base name matches none is passed over
\* with no check, no error and no change; every other entry, and with no
\* patterns every entry, is processed: Unzip fails on it or it is there
\* afterwards, a directory as a directory, a file with the entry's content.
C9_FilterSelectsByBaseName ==
    [][AtEntry =>
         IF ~Selected(CurEntry, uf.opts)
         THEN /\ fs' = fs
              /\ made' = made
              /\ out' = out
              /\ uf' = [uf EXCEPT !.i = @ + 1]
         ELSE \/ uf'.err.kind # "none" /\ uf'.i = uf.i
              \/ /\ uf' = [uf EXCEPT !.i = @ + 1]
                 /\ CurDest \in DOMAIN fs'
                 /\ IF CurEntry.dir THEN fs'[CurDest].dir
                    ELSE ~fs'[CurDest].dir /\ fs'[CurDest].data = CurEntry.data]_vars

\* A call with patterns has returned without error: it passed over an entry
\* whose destination is outside the root and extracted a matching file.
C9_Witness ==
    /\ pc = "idle"
    /\ Len(calls) = 1
    /\ calls[1].err.kind = "none"
    /\ calls[1].opts.FilePatterns # <<>>
    /\ \E j \in 1..Len(arch.entries) :
          /\ ~Selected(arch.entries[j], calls[1].opts)
          /\ ~WithinRoot(Abs(DestPath(arch.entries[j], calls[1].opts, uf.outputDir)),
                         uf.absOutputDir)
    /\ \E j \in 1..Len(arch.entries) :
          /\ Selected(arch.entries[j], calls[1].opts)
          /\ ~arch.entries[j].dir
          /\ Abs(DestPath(arch.entries[j], calls[1].opts, uf.outputDir)) \in calls[1].made

\* ------------------------------------- specification: repeated Unzip
\* Entries of the archives extracted more than once.
TwicePool ==
    {FileEntry(<<"a">>, 5, TRUE),
     FileEntry(<<"d", "/", "a">>, 6, FALSE),
     DirEntry(<<"d", "/">>, TRUE),
     FileEntry(<<".", ".", "/", "o", "b">>, 7, TRUE)}

\* The options every call of a run shares; Overwrite is chosen per call.
TwiceOptionsSet ==
    [OutputDir : {<<>>, <<"o">>}, Overwrite : {FALSE}, JunkPaths : BOOLEAN,
     FilePatterns : {<<>>, <<<<"a">>>>}, Output : {TRUE}]

InitTwice ==
    /\ InitIdle
    /\ io = NoFaults
    /\ arch \in {ArchiveOf(es) : es \in SeqsUpTo(TwicePool, MaxEntries)}
    /\ copts \in TwiceOptionsSet
    /\ mname = <<>>
    /\ mpats = <<>>

\* One more call of Unzip on the same archive into the same directory.
UnzipAgain ==
    /\ Len(calls) < MaxCalls
    /\ \E ow \in BOOLEAN : UnzipStart([copts EXCEPT !.Overwrite = ow])

NextTwice ==
    \/ UnzipAgain
    \/ UnzipEntry
    \/ UnzipReturn

SpecTwice == InitTwice /\ [][NextTwice]_vars

\* Without Overwrite, a file entry Unzip takes whose destination exists
\* makes it fail with "file exists" naming the path, nothing changed.
CollisionAborts ==
    (/\ AtEntry
     /\ ~uf.opts.Overwrite
     /\ Selected(CurEntry, uf.opts)
     /\ WithinRoot(CurDest, uf.absOutputDir)
     /\ ~CurEntry.dir
     /\ CurDest \in DOMAIN fs) =>
        /\ uf'.err = Err("file exists", DestPath(CurEntry, uf.opts, uf.outputDir))
        /\ fs' = fs

\* The archive has a file entry the filter of the call selects.
HasSelectedFile(opts) ==
    \E j \in 1..Len(arch.entries) :
        ~arch.entries[j].dir /\ Selected(arch.entries[j], opts)

\* C3, as stated: without Overwrite a file entry whose destination exists
\* aborts Unzip with "file exists" naming the path, nothing changed; so a
\* second extraction of the archive into the same directory without
\* Overwrite fails.
C3_CollisionAbortsAndSecondRunFails ==
    /\ [][CollisionAborts]_vars
    /\ [](\A k \in 2..Len(calls) :
            ~calls[k].opts.Overwrite => calls[k].err.kind # "none")

\* C3, amended: without Overwrite a file entry whose destination exists
\* aborts Unzip with "file exists" naming the path, nothing changed; so a
\* second extraction without Overwrite of an archive with a file entry the
\* filter selects fails.
C3_CollisionAbortsAndSecondRunWithFileFails ==
    /\ [][CollisionAborts]_vars
    /\ [](\A k \in 2..Len(calls) :
            (~calls[k].opts.Overwrite /\ HasSelectedFile(calls[k].opts)) =>
                calls[k].err.kind # "none")

\* A first extraction wrote a file and the second, without Overwrite,
\* failed on it with "file exists".
C3_Witness ==
    /\ pc = "idle"
    /\ Len(calls) = 2
    /\ calls[1].err.kind = "none"
    /\ \E p \in calls[1].made : ~fs[p].dir
    /\ ~calls[2].opts.Overwrite
    /\ calls[2].err.kind = "file exists"
    /\ calls[2].made = {}

\* C4: after an extraction without error, every further extraction with
\* Overwrite succeeds and leaves at the destination of each file entry the
\* content of the entry.
C4_RepeatWithOverwriteSucceeds ==
    \A k \in 2..Len(calls) :
        (calls[1].err.kind = "none" /\ \A j \in 2..k : calls[j].opts.Overwrite) =>
            /\ calls[k].err.kind = "none"
            /\ (pc = "idle" /\ k = Len(calls)) =>
                  \A j \in 1..Len(arch.entries) :
                      LET e == arch.entries[j]
                          d == Abs(DestPath(e, calls[k].opts, uf.outputDir))
                      IN  (~e.dir /\ Selected(e, calls[k].opts)) =>
                             d \in DOMAIN fs /\ fs[d].data = e.data

\* ---------------------------------------- specification: Zip, then Unzip
RoundZipOptionsSet ==
    [Recursive : BOOLEAN, CompressionLevel : {-1, 0}, ExcludePatterns : {<<>>},
     Output : {FALSE}]

\* Overwrite, no patterns, paths kept; the root is the working directory, a
\* missing directory in it, or a missing directory in a missing directory.
RoundUnzipOptionsSet ==
    [OutputDir : {<<>>, <<"o">>, <<"o", "/", "r">>}, Overwrite : {TRUE},
     JunkPaths : {FALSE}, FilePatterns : {<<>>}, Output : {FALSE}]

InitRound ==
    /\ InitIdle
    /\ io = NoFaults
    /\ arch = NoArchive
    /\ copts \in RoundUnzipOptionsSet
    /\ mname = <<>>
    /\ mpats = <<>>

\* Unzip of the archive Zip has returned from.
UnzipAfterZip ==
    /\ zf.st = "ret"
    /\ Len(calls) = 0
    /\ UnzipStart(copts)

\* The call of Zip the round trip starts with.
ZipFirst ==
    /\ zf.st = "new"
    /\ \E files \in SeqsUpTo(SrcPaths, MaxFiles), opts \in RoundZipOptionsSet :
          ZipStart(files, opts)

NextRound ==
    \/ ZipFirst
    \/ ZipAdd
    \/ ZipReturn
    \/ UnzipAfterZip
    \/ UnzipEntry
    \/ UnzipReturn

SpecRound == InitRound /\ [][NextRound]_vars

\* The original files source path s reaches, each with the name of its
\* entry: the file itself, or with Recursive the files below the directory.
OriginalsOf(s, recursive) ==
    LET st == Stat(SrcFS, s)
    IN  IF ~st.ok THEN {}
        ELSE IF ~SrcFS[st.p].dir THEN {<<s, st.p>>}
        ELSE IF ~recursive THEN {}
        ELSE LET r == IF st.p = <<Sep>> THEN st.p ELSE st.p \o <<Sep>>
             IN  {<<Join(s, SubSeq(q, Len(r) + 1, Len(q))), q>> :
                     q \in {x \in DOMAIN SrcFS : ~SrcFS[x].dir /\ HasPrefix(x, r)}}

Originals ==
    UNION {OriginalsOf(zf.files[i], zf.opts.Recursive) : i \in 1..Len(zf.files)}

\* Where the file with entry name n is expected after the round trip.
RoundDest(n) == Abs(Join(uf.outputDir, n))

\* Zip returned without error and the Unzip of its archive has returned.
RoundTripDone == pc = "idle" /\ ZipSucceeded /\ Len(calls) = 1

\* Unzip succeeded and every original file is at root/name with its content.
RoundTripFaithful ==
    /\ calls[1].err.kind = "none"
    /\ \A o \in Originals :
          /\ RoundDest(o[1]) \in DOMAIN fs
          /\ ~fs[RoundDest(o[1])].dir
          /\ fs[RoundDest(o[1])].data = SrcFS[o[2]].data

\* No source path reaches a file another source path reaches, every entry
\* name stays inside the root, and the root does not exist yet.
RoundTripSafe ==
    /\ \A i, j \in 1..Len(zf.files) :
          i # j =>
             {RoundDest(o[1]) : o \in OriginalsOf(zf.files[i], zf.opts.Recursive)} \cap
             {RoundDest(o[1]) : o \in OriginalsOf(zf.files[j], zf.opts.Recursive)} = {}
    /\ \A o \in Originals : WithinRoot(RoundDest(o[1]), uf.absOutputDir)
    /\ uf.absOutputDir \notin DOMAIN SrcFS

\* C2, as stated: for every file set, Zip into a fresh archive and then
\* Unzip with Overwrite and no patterns succeeds, and every original file
\* is at root/name with its content.
C2_RoundTrip == RoundTripDone => RoundTripFaithful

\* The round trip does hold for a file set in which no file is reached twice
\* and every entry name stays inside the root, into a root that does not
\* exist yet.
C2_RoundTripOfSafeFileSet == (RoundTripDone /\ RoundTripSafe) => RoundTripFaithful

\* A recursive Zip of a directory and a file, extracted into a new root.
C2_Witness ==
    /\ RoundTripDone
    /\ RoundTripSafe
    /\ zf.opts.Recursive
    /\ Len(arch.entries) = 3
    /\ Cardinality(Originals) = 3
    /\ calls[1].err.kind = "none"

\* -------------------------------------------------- specification: List
\* A file at zipPath that is no complete archive.
BrokenArchive == [exists |-> TRUE, final |-> FALSE, entries |-> <<>>]

InitList ==
    /\ InitIdle
    /\ io = NoFaults
    /\ arch \in {NoArchive, BrokenArchive} \cup
                {ArchiveOf(es) : es \in SeqsUpTo(EntryPool, MaxEntries)}
    /\ copts \in [OutputDir : {<<"o">>}, Overwrite : {FALSE}, JunkPaths : BOOLEAN,
                  FilePatterns : {<<>>}, Output : {TRUE}]
    /\ mname = <<>>
    /\ mpats = <<>>

\* One call of List, before or after the call of Unzip.
ListOnce ==
    /\ lf.st = "new"
    /\ ListOpen

NextList ==
    \/ ListOnce
    \/ ListReturn
    \/ UnzipOnce
    \/ UnzipEntry
    \/ UnzipReturn

SpecList == InitList /\ [][NextList]_vars

\* C11: List returns one record for every entry, directories included, in
\* the order of the archive, each with the entry's name, size, time and
\* directory flag; when the archive cannot be opened it returns an error and
\* no list; and no step of List changes the file system or the archive.
C11_ListReturnsEveryEntryAndWritesNothing ==
    /\ [](lf.st = "ret" =>
            IF arch.exists /\ arch.final
            THEN /\ lf.err.kind = "none"
                 /\ Len(lf.entries) = Len(arch.entries)
                 /\ \A k \in 1..Len(arch.entries) :
                       /\ lf.entries[k].Name = arch.entries[k].name
                       /\ lf.entries[k].IsDir = arch.entries[k].dir
                       /\ lf.entries[k].UncompressedSize = arch.entries[k].data
                       /\ lf.entries[k].Modified = arch.entries[k].mt
            ELSE lf.err.kind = "open archive" /\ lf.entries = <<>>)
    /\ [][(pc = "list" \/ pc' = "list") => (fs' = fs /\ arch' = arch)]_vars

\* List has returned a directory and a file, in this order, after an Unzip
\* that changed the file system.
C11_Witness ==
    /\ lf.st = "ret"
    /\ lf.err.kind = "none"
    /\ Len(lf.entries) = 2
    /\ lf.entries[1].IsDir
    /\ ~lf.entries[2].IsDir
    /\ Len(calls) = 1
    /\ fs # SrcFS

\* ------------------------------------------------------------ JunkPaths
\* With JunkPaths a file entry Unzip extracts is written at the root joined
\* with the final segment of its name.
JunkedFileAtBaseName ==
    (AtEntry /\ uf.opts.JunkPaths /\ Selected(CurEntry, uf.opts) /\ ~CurEntry.dir
        /\ uf'.err.kind = "none") =>
        LET d == Abs(Join(uf.outputDir, FinalSegment(CurEntry.name)))
        IN  /\ d \in made'
            /\ ~fs'[d].dir
            /\ fs'[d].data = CurEntry.data
            /\ d = uf.absOutputDir \/ Dir(d) = uf.absOutputDir

\* The paths the call has made at or below the root, the root excepted.
MadeBelowRoot == {p \in made : WithinRoot(p, uf.absOutputDir) /\ p # uf.absOutputDir}

\* C12, as stated: with JunkPaths every file extracted is at the root joined
\* with its base name, directly in the root, and none of the archive's
\* directories is made under the root.
C12_JunkPathsMakesFilesInRootOnly ==
    /\ [][JunkedFileAtBaseName]_vars
    /\ [](uf.opts.JunkPaths =>
            \A p \in MadeBelowRoot : Dir(p) = uf.absOutputDir /\ ~fs[p].dir)

\* C12, amended: with JunkPaths every file extracted is at the root joined
\* with its base name, directly in the root, and nothing is made deeper than
\* that; a directory entry is still made, as a directory directly in the
\* root under its base name.
C12_JunkPathsMakesNothingBelowChildren ==
    /\ [][JunkedFileAtBaseName]_vars
    /\ [](uf.opts.JunkPaths =>
            \A p \in MadeBelowRoot :
                /\ Dir(p) = uf.absOutputDir
                /\ fs[p].dir =>
                      \E j \in 1..Len(uf.files) :
                          /\ uf.files[j].dir
                          /\ p = Abs(Join(uf.outputDir, FinalSegment(uf.files[j].name))))

\* A call with JunkPaths has returned nil: the file d/a is in the root as a,
\* and the directory entry d/ has made the directory d in the root.
C12_Witness ==
    /\ pc = "idle"
    /\ Len(calls) = 1
    /\ calls[1].opts.JunkPaths
    /\ calls[1].err.kind = "none"
    /\ uf.absOutputDir \notin DOMAIN SrcFS
    /\ \E j \in 1..Len(arch.entries) :
          /\ ~arch.entries[j].dir
          /\ Contains(arch.entries[j].name, Sep)
          /\ Abs(Join(uf.outputDir, FinalSegment(arch.entries[j].name))) \in made
    /\ \E p \in made : Dir(p) = uf.absOutputDir /\ fs[p].dir

\* ------------------------------------------------ the walk and the order
\* A pattern of the list matches the final segment of the path.
Excluded(path, excl) ==
    \E i \in 1..Len(excl) : GlobMatches(excl[i], FinalSegment(path))

\* The directories from the walk root r down to the file q, the root left
\* out.
DirsBetween(r, q) ==
    {d \in DOMAIN fs : fs[d].dir /\ HasPrefix(d, r \o <<Sep>>) /\ HasPrefix(q, d \o <<Sep>>)}

\* C14: in a recursive Zip, for each source directory walked: a file below
\* it has no entry when the walk root as passed or a directory on the way to
\* the file matches a pattern by its base name, whatever the file's name; it
\* has no entry when its own base name matches; it has an entry otherwise;
\* and no entry is a directory.
C14_WalkSkipsSubtreesAndFiles ==
    (zf.st # "new" /\ zf.opts.Recursive) =>
        \A i \in Processed : IsDirSource(i) =>
            LET r == Stat(fs, zf.files[i]).p
                excl == zf.opts.ExcludePatterns
            IN  /\ \A q \in FilesBelow(r) :
                      IF Excluded(zf.files[i], excl) \/ \E d \in DirsBetween(r, q) : Excluded(d, excl)
                      THEN ~Contributed(i, q)
                      ELSE Contributed(i, q) <=> ~Excluded(q, excl)
                /\ \A k \in EntriesFrom(i) :
                      /\ ~arch.entries[k].dir
                      /\ Stat(fs, arch.entries[k].name).ok
                      /\ ~fs[Stat(fs, arch.entries[k].name).p].dir

\* A recursive Zip of the working directory with the pattern a has
\* returned: a and d/a are left out, d/b is an entry.
C14_Witness ==
    /\ ZipSucceeded
    /\ zf.opts.Recursive
    /\ zf.files = <<Dot>>
    /\ zf.opts.ExcludePatterns = <<<<"a">>>>
    /\ Len(arch.entries) = 1
    /\ arch.entries[1].name = <<"d", "/", "b">>

\* The elements of a path.
SegsOf(q) == SelectSeq(Split(q), LAMBDA e : e # <<>>)

\* Depth-first order with the names of each directory in byte order: the
\* order of the lists of elements.
RECURSIVE SegLess(_, _)
SegLess(a, b) ==
    IF a = <<>> THEN b # <<>>
    ELSE IF b = <<>> THEN FALSE
    ELSE IF Head(a) = Head(b) THEN SegLess(Tail(a), Tail(b))
    ELSE LexLess(Head(a), Head(b))

RECURSIVE InWalkOrder(_)
InWalkOrder(S) ==
    IF S = {} THEN <<>>
    ELSE LET m == CHOOSE x \in S : \A y \in S \ {x} : SegLess(SegsOf(x), SegsOf(y))
         IN  <<m>> \o InWalkOrder(S \ {m})

\* The names Zip is to write for source path s, in order.
ExpectedNamesOf(s, opts) ==
    LET st == Stat(fs, s)
        excl == opts.ExcludePatterns
    IN  IF ~fs[st.p].dir THEN IF Excluded(s, excl) THEN <<>> ELSE <<ToSlash(s)>>
        ELSE IF ~opts.Recursive \/ Excluded(s, excl) THEN <<>>
        ELSE LET kept == {q \in FilesBelow(st.p) :
                             /\ ~Excluded(q, excl)
                             /\ \A d \in DirsBetween(st.p, q) : ~Excluded(d, excl)}
                 order == InWalkOrder(kept)
             IN  [k \in 1..Len(order) |-> WalkedName(s, order[k])]

RECURSIVE ExpectedNames(_, _)
ExpectedNames(files, opts) ==
    IF files = <<>> THEN <<>>
    ELSE ExpectedNamesOf(Head(files), opts) \o ExpectedNames(Tail(files), opts)

\* C15: the names of the entries of the archive a successful Zip leaves are,
\* in order, the files not excluded as met: the source paths in the order
\* given, each directory depth-first, each name the path as traversed in
\* slash form; a file met twice has two entries.
C15_EntriesInTraversalOrder ==
    ZipSucceeded =>
        [k \in 1..Len(arch.entries) |-> arch.entries[k].name] =
            ExpectedNames(zf.files, zf.opts)

\* A recursive Zip of d listed twice has returned: d/a and d/b, twice.
C15_Witness ==
    /\ ZipSucceeded
    /\ zf.opts.Recursive
    /\ zf.files = <<<<"d">>, <<"d">>>>
    /\ Len(arch.entries) = 4
    /\ arch.entries[1].name = <<"d", "/", "a">>
    /\ arch.entries[2].name = <<"d", "/", "b">>
    /\ arch.entries[3].name = arch.entries[1].name

\* ------------------------------- specification: calls with I/O failures
FaultKinds == {"open", "copy", "chtimes", "close"}

IOSrcPaths == {<<"a">>, <<"d">>, <<"n">>}

IOZipOptionsSet ==
    [Recursive : BOOLEAN, CompressionLevel : {-1}, ExcludePatterns : {<<>>},
     Output : {FALSE}]

IOUnzipOptionsSet ==
    [OutputDir : {<<"o">>}, Overwrite : BOOLEAN, JunkPaths : {FALSE},
     FilePatterns : {<<>>}, Output : {TRUE}]

InitIO ==
    /\ InitIdle
    /\ io = [faults |-> FaultKinds, failed |-> <<>>, call |-> "none"]
    /\ arch \in {NoArchive, BrokenArchive} \cup
                {ArchiveOf(es) : es \in SeqsUpTo(TwicePool, MaxEntries)}
    /\ copts \in IOUnzipOptionsSet
    /\ mname = <<>>
    /\ mpats = <<>>

\* A call of Zip where no archive is yet.
ZipFresh ==
    /\ zf.st = "new"
    /\ ~arch.exists
    /\ \E files \in SeqsUpTo(IOSrcPaths, MaxFiles), opts \in IOZipOptionsSet :
          ZipStart(files, opts)

NextIO ==
    \/ ZipFresh
    \/ ZipAdd
    \/ ZipReturn
    \/ UnzipOnce
    \/ UnzipEntry
    \/ UnzipReturn
    \/ ListOnce
    \/ ListReturn

SpecIO == InitIO /\ [][NextIO]_vars

\* After a step of Unzip has failed nothing more is done: no entry taken,
\* nothing written, nothing said.
NothingAfterFailure ==
    (pc = "unzip" /\ uf.err.kind # "none") =>
        /\ fs' = fs
        /\ made' = made
        /\ out' = out
        /\ uf' = uf

\* The loop takes the entries one by one in the order of the archive: a step
\* goes on to the next entry or fails at the one it took, and what it says
\* is about that entry.
OneEntryAtATime ==
    (pc = "unzip" /\ pc' = "unzip") =>
        /\ \/ uf'.i = uf.i + 1 /\ uf'.err.kind = "none"
           \/ uf'.i = uf.i /\ uf'.err.kind # "none"
        /\ \/ out' = out
           \/ out' = Append(out, [msg |-> "inflating",
                                  path |-> DestPath(CurEntry, uf.opts, uf.outputDir)])

\* C13: Unzip takes the entries in the order of the archive; once a step has
\* failed it takes no further entry and writes nothing more; when the
\* archive cannot be opened nothing is extracted; and what was made for the
\* earlier entries stays: nothing is rolled back.
C13_AbortWithoutRollback ==
    /\ [][NothingAfterFailure]_vars
    /\ [][OneEntryAtATime]_vars
    /\ []((pc = "unzip" /\ uf.err.kind = "open archive") => (made = {} /\ out = <<>>))
    /\ [](io.call = "unzip" => \A p \in made : p \in DOMAIN fs)

\* Unzip has returned the error of a failed chtimes at the second entry: the
\* file of the first entry is there with its content, the file of the second
\* as well.
C13_Witness ==
    /\ pc = "idle"
    /\ io.call = "unzip"
    /\ Len(calls) = 1
    /\ calls[1].err.kind = "chtimes"
    /\ Len(uf.files) = 2
    /\ uf.i = 2
    /\ \A j \in 1..2 :
          LET d == Abs(DestPath(uf.files[j], uf.opts, uf.outputDir))
          IN  d \in made /\ ~fs[d].dir /\ fs[d].data = uf.files[j].data
    /\ uf.files[1].name # uf.files[2].name

\* C16: when a step of the call of Zip or Unzip that has returned failed, the
\* call returned an error, and every error returned carries a path or a name.
C16_EveryFailureIsReturned ==
    /\ (pc = "idle" /\ io.call = "zip") =>
          /\ io.failed # <<>> => zf.err.kind # "none"
          /\ zf.err.kind # "none" => zf.err.arg # <<>>
    /\ (pc = "idle" /\ io.call = "unzip") =>
          /\ io.failed # <<>> => uf.err.kind # "none"
          /\ uf.err.kind # "none" => uf.err.arg # <<>>

\* The handles Zip holds between two steps, and Unzip and List.
ZipHandles == {Handle("archive file", <<>>), Handle("writer", <<>>)}
ReaderHandles == {Handle("reader", <<>>)}

\* The place of an event in the log, 0 when it is not there.
LogIndex(ev) ==
    IF \E k \in 1..Len(hnd.log) : hnd.log[k] = ev
    THEN CHOOSE k \in 1..Len(hnd.log) : hnd.log[k] = ev
    ELSE 0

\* C17: when no call is in progress no handle is open, and every handle
\* opened was closed afterwards; between the steps of a call only the
\* handles of the archive are open; and Zip has closed the writer before the
\* archive file.
C17_HandlesReleased ==
    /\ pc = "idle" =>
          /\ hnd.open = {}
          /\ \A k \in 1..Len(hnd.log) :
                hnd.log[k].op = "open" =>
                    \E j \in (k + 1)..Len(hnd.log) : hnd.log[j] = Closed(hnd.log[k].h)
    /\ pc = "zip" => hnd.open = ZipHandles
    /\ pc = "unzip" => hnd.open = IF uf.err.kind = "open archive" THEN {} ELSE ReaderHandles
    /\ pc = "list" => hnd.open = IF lf.err.kind = "open archive" THEN {} ELSE ReaderHandles
    /\ (pc = "idle" /\ zf.st = "ret" /\ io.call = "zip" /\ lf.st = "new") =>
          /\ LogIndex(Closed(Handle("writer", <<>>))) > 0
          /\ LogIndex(Closed(Handle("writer", <<>>))) <
                LogIndex(Closed(Handle("archive file", <<>>)))

\* Unzip has returned the error of a destination that could not be created:
\* the entry had been opened, and it was closed.
C17_Witness ==
    /\ pc = "idle"
    /\ io.call = "unzip"
    /\ lf.st = "new"
    /\ uf.err.kind = "create"
    /\ hnd.open = {}
    /\ \E k \in 1..Len(hnd.log) :
          /\ hnd.log[k].op = "close"
          /\ hnd.log[k].h = Handle("entry", uf.files[uf.i].name)

====
